---- MODULE Spec2Model ----
(***************************************************************************)
(* The two Streamlit scripts of the ARXML review tool:                     *)
(*   src/1.py  parse_arxml (xmltodict), check_consistency, compare_arxml   *)
(*   src/5.py  parse_arxml (lxml), extract_autosar_elements, compare_arxml *)
(*             (pandas outer merge)                                        *)
(* An uploaded file is a sequence of lexical tokens (start tag, end tag,   *)
(* one character of text, comment, undecodable byte).  Python strings are  *)
(* sequences of one-character strings; None, str, dict and list values are *)
(* the records None, Str(s), Dict(d), List(l).                             *)
(***************************************************************************)
EXTENDS Integers, Sequences, FiniteSets, TLC

\* ---------------------------------------------------------------- bounds
\* most child nodes of the root element of an enumerated document
MaxChildren == 2
\* most characters of an enumerated whitespace-only file
MaxBlank == 2

\* ---------------------------------------------------------------- tokens
Whitespace == {" ", "\n"}

Open(tag, attr) == [k |-> "open", tag |-> tag, attr |-> attr, ch |-> ""]
Close(tag) == [k |-> "close", tag |-> tag, attr |-> <<>>, ch |-> ""]
Chr(c) == [k |-> "char", tag |-> "", attr |-> <<>>, ch |-> c]
Cmt == [k |-> "comment", tag |-> "", attr |-> <<>>, ch |-> ""]
BadByte == [k |-> "badbyte", tag |-> "", attr |-> <<>>, ch |-> ""]

\* ---------------------------------------------------------------- nodes
\* attr is <<>> (no SHORT-NAME attribute) or <<v>> (SHORT-NAME="v")
ElemNode(tag, attr, children) ==
    [kind |-> "elem", tag |-> tag, attr |-> attr, ch |-> "", children |-> children]
TextNode(c) ==
    [kind |-> "text", tag |-> "", attr |-> <<>>, ch |-> c, children |-> <<>>]
CommentNode ==
    [kind |-> "comment", tag |-> "", attr |-> <<>>, ch |-> "", children |-> <<>>]

\* ---------------------------------------------------------------- Python values
None == [t |-> "None"]
Str(s) == [t |-> "str", s |-> s]
Dict(d) == [t |-> "dict", d |-> d]
List(l) == [t |-> "list", l |-> l]

Min(S) == CHOOSE x \in S : \A y \in S : x <= y
Max(S) == CHOOSE x \in S : \A y \in S : x >= y

RECURSIVE Concat(_)
Concat(ss) == IF ss = <<>> THEN <<>> ELSE Head(ss) \o Concat(Tail(ss))

\* ---------------------------------------------------------------- XML well-formedness
\* What both XML parsers (expat under xmltodict, libxml2 under lxml) accept:
\* one root element, balanced tags, only whitespace and comments outside it.
SyntaxError == [ok |-> FALSE, root |-> CommentNode]

AddChild(stack, node) ==
    [stack EXCEPT ![Len(stack)].children = Append(@, node)]

RECURSIVE ParseTokens(_, _, _, _)
ParseTokens(toks, i, stack, root) ==
    IF i > Len(toks)
    THEN IF stack # <<>> \/ root = <<>> THEN SyntaxError
         ELSE [ok |-> TRUE, root |-> root[1]]
    ELSE LET t == toks[i] IN
         CASE t.k = "badbyte" -> SyntaxError
           [] t.k = "open" ->
                IF stack = <<>> /\ root # <<>> THEN SyntaxError
                ELSE ParseTokens(toks, i + 1,
                                 Append(stack, ElemNode(t.tag, t.attr, <<>>)), root)
           [] t.k = "close" ->
                IF stack = <<>> THEN SyntaxError
                ELSE IF stack[Len(stack)].tag # t.tag THEN SyntaxError
                ELSE LET done == stack[Len(stack)]
                         rest == SubSeq(stack, 1, Len(stack) - 1)
                     IN  IF rest = <<>>
                         THEN ParseTokens(toks, i + 1, <<>>, <<done>>)
                         ELSE ParseTokens(toks, i + 1, AddChild(rest, done), root)
           [] t.k = "char" ->
                IF stack = <<>>
                THEN IF t.ch \in Whitespace
                     THEN ParseTokens(toks, i + 1, stack, root)
                     ELSE SyntaxError
                ELSE ParseTokens(toks, i + 1, AddChild(stack, TextNode(t.ch)), root)
           [] t.k = "comment" ->
                IF stack = <<>>
                THEN ParseTokens(toks, i + 1, stack, root)
                ELSE ParseTokens(toks, i + 1, AddChild(stack, CommentNode), root)

XmlParse(toks) == ParseTokens(toks, 1, <<>>, <<>>)

\* ---------------------------------------------------------------- xmltodict
\* str.strip() on a string (sequence of characters)
StripStr(s) ==
    LET keep == {i \in 1..Len(s) : s[i] \notin Whitespace}
    IN  IF keep = {} THEN <<>> ELSE SubSeq(s, Min(keep), Max(keep))

\* xmltodict's push_data: first value under a key is stored bare, a second
\* turns the entry into a list, later ones are appended.
PushData(item, key, data) ==
    IF key \in DOMAIN item
    THEN IF item[key].t = "list"
         THEN [item EXCEPT ![key] = List(Append(@.l, data))]
         ELSE [item EXCEPT ![key] = List(<<@, data>>)]
    ELSE item @@ (key :> data)

ElementChildren(node) == SelectSeq(node.children, LAMBDA c : c.kind = "elem")
TextOf(node) ==
    LET ts == SelectSeq(node.children, LAMBDA c : c.kind = "text")
    IN  [i \in 1..Len(ts) |-> ts[i].ch]

RECURSIVE XmlToDict(_)
RECURSIVE PushChildren(_, _, _)
PushChildren(item, kids, i) ==
    IF i > Len(kids) THEN item
    ELSE PushChildren(PushData(item, kids[i].tag, XmlToDict(kids[i])), kids, i + 1)

\* the value xmltodict stores for one element (strip_whitespace, attributes
\* under "@name", text beside children under "#text")
XmlToDict(node) ==
    LET attrs == IF node.attr = <<>> THEN <<>>
                 ELSE ("@SHORT-NAME" :> Str(node.attr[1]))
        item == PushChildren(attrs, ElementChildren(node), 1)
        data == StripStr(TextOf(node))
    IN  IF DOMAIN item # {}
        THEN IF data # <<>> THEN Dict(PushData(item, "#text", Str(data)))
             ELSE Dict(item)
        ELSE IF data # <<>> THEN Str(data) ELSE None

\* ---------------------------------------------------------------- src/1.py
\* file_content.strip() on the decoded content
StripContent(toks) ==
    LET keep == {i \in 1..Len(toks) :
                    ~(toks[i].k = "char" /\ toks[i].ch \in Whitespace)}
    IN  IF keep = {} THEN <<>> ELSE SubSeq(toks, Min(keep), Max(keep))

EmptyMessage == Str(<<"The uploaded file is empty.">>)
ParseMessage(e) == Str(<<"Error parsing ARXML file: ", e>>)

\* ParsePath with "if not file_content:" for "if not file_content.strip():"
ParsePath_NoStrip(file) ==
    IF \E i \in 1..Len(file) : file[i].k = "badbyte" THEN "decode_raised"
    ELSE IF file = <<>> THEN "empty"
    ELSE IF XmlParse(file).ok THEN "parsed"
    ELSE "parse_raised"

\* the path parse_arxml (src/1.py) takes through its try block
ParsePath(file) ==
    IF \E i \in 1..Len(file) : file[i].k = "badbyte" THEN "decode_raised"
    ELSE IF StripContent(file) = <<>> THEN "empty"
    ELSE IF XmlParse(file).ok THEN "parsed"
    ELSE "parse_raised"

parse_arxml_1(file) ==
    LET path == ParsePath(file) IN
    CASE path = "decode_raised" -> ("error" :> ParseMessage("UnicodeDecodeError"))
      [] path = "empty" -> ("error" :> EmptyMessage)
      [] path = "parsed" ->
            LET root == XmlParse(file).root IN (root.tag :> XmlToDict(root))
      [] path = "parse_raised" -> ("error" :> ParseMessage("ExpatError"))

required_fields == <<"ECU", "Software-Component", "Diagnostic", "Communication">>

Finding(text, arg, category) ==
    [issue |-> [text |-> text, arg |-> arg], category |-> category]

\* (the isinstance test of lines 97-98 never fails: xmltodict.parse returns a
\* dict, and so does every error return of parse_arxml)
check_consistency(file) ==
    LET extracted_data == parse_arxml_1(file) IN
    IF "error" \in DOMAIN extracted_data
    THEN <<Finding("{error}", extracted_data["error"], "Critical")>>
    ELSE LET missing == SelectSeq(required_fields,
                                  LAMBDA field : field \notin DOMAIN extracted_data)
             inconsistencies ==
                 [i \in 1..Len(missing) |->
                     Finding("Missing required configuration: {field}",
                             Str(<<missing[i]>>), "Critical")]
         IN  IF inconsistencies # <<>> THEN inconsistencies
             ELSE <<Finding("No inconsistencies found.", None, "Info")>>

RECURSIVE KeySeq(_)
\* the keys of a dict in iteration order (xmltodict's result has one key)
KeySeq(S) ==
    IF S = {} THEN <<>>
    ELSE LET k == CHOOSE k \in S : TRUE IN <<k>> \o KeySeq(S \ {k})

MissingInSecond(key) == [kind |-> "missing_in_second", key |-> key]
MissingInFirst(key) == [kind |-> "missing_in_first", key |-> key]
DifferenceIn(key, v1, v2) ==
    [kind |-> "difference", key |-> key, file1 |-> v1, file2 |-> v2]
NoDifferences == [kind |-> "no_differences"]
InvalidFiles ==
    Finding("Invalid ARXML file(s). Please upload valid files.", None, "Critical")

\* the two loops of compare_arxml over the keys of data1 and of data2
Differences1(data1, data2) ==
    LET keys1 == KeySeq(DOMAIN data1)
        keys2 == KeySeq(DOMAIN data2)
        first == Concat([i \in 1..Len(keys1) |->
                    IF keys1[i] \notin DOMAIN data2
                    THEN <<MissingInSecond(keys1[i])>>
                    ELSE IF data1[keys1[i]] # data2[keys1[i]]
                    THEN <<DifferenceIn(keys1[i], data1[keys1[i]], data2[keys1[i]])>>
                    ELSE <<>>])
        second == Concat([i \in 1..Len(keys2) |->
                    IF keys2[i] \notin DOMAIN data1
                    THEN <<MissingInFirst(keys2[i])>>
                    ELSE <<>>])
        differences == first \o second
    IN  IF differences # <<>> THEN differences ELSE <<NoDifferences>>

\* compare_arxml with the error test on data1 alone
compare_arxml_1_FirstOnly(file1, file2) ==
    LET data1 == parse_arxml_1(file1)
        data2 == parse_arxml_1(file2)
    IN  IF "error" \in DOMAIN data1 THEN <<InvalidFiles>>
        ELSE Differences1(data1, data2)

\* (the isinstance test of lines 121-122 never fails, as in check_consistency)
compare_arxml_1(file1, file2) ==
    LET data1 == parse_arxml_1(file1)
        data2 == parse_arxml_1(file2)
    IN  IF "error" \in DOMAIN data1 \/ "error" \in DOMAIN data2
        THEN <<InvalidFiles>>
        ELSE Differences1(data1, data2)

\* ---------------------------------------------------------------- src/5.py
\* the parsed root as <<root>>, None as <<>>
parse_arxml_5(file) ==
    LET r == XmlParse(file) IN IF r.ok THEN <<r.root>> ELSE <<>>

\* bool(element) in lxml: the element has a child node
Truthy(root) ==
    /\ root # <<>>
    /\ \E i \in 1..Len(root[1].children) : root[1].children[i].kind # "text"

RECURSIVE Iter(_, _)
\* root.iter(): elements and comments in document order, each with its parent
Iter(node, parent) ==
    LET kids == SelectSeq(node.children, LAMBDA c : c.kind # "text")
    IN  <<[node |-> node, parent |-> parent]>>
        \o Concat([i \in 1..Len(kids) |-> Iter(kids[i], <<node>>)])

\* "SHORT-NAME" in elem.tag (a substring test), over the tags the enumerated
\* documents use
ContainsShortName(tag) == tag \in {"SHORT-NAME", "SHORT-NAME-PATTERN"}

\* elem.text in lxml: the text before the first child node, None when empty
ElemText(node) ==
    LET cut == {i \in 1..Len(node.children) : node.children[i].kind # "text"}
        n == IF cut = {} THEN Len(node.children) ELSE Min(cut) - 1
    IN  IF n = 0 THEN None ELSE Str([i \in 1..n |-> node.children[i].ch])

Raised(exc) == [status |-> "raised", exc |-> exc, value |-> <<>>]
Returned(value) == [status |-> "ok", exc |-> "", value |-> value]

RECURSIVE ExtractLoop(_, _, _)
ExtractLoop(its, i, elements) ==
    IF i > Len(its) THEN Returned(elements)
    ELSE LET elem == its[i].node
             parent == its[i].parent
         IN  IF elem.kind = "comment" THEN Raised("TypeError")
             ELSE IF ContainsShortName(elem.tag)
             THEN IF parent = <<>> THEN Raised("AttributeError")
                  ELSE ExtractLoop(its, i + 1, Append(elements,
                         [Tag |-> elem.tag,
                          Parent_Tag |-> parent[1].tag,
                          Parent_Name |-> IF parent[1].attr = <<>>
                                          THEN Str(<<"N", "/", "A">>)
                                          ELSE Str(parent[1].attr[1]),
                          Value |-> ElemText(elem)]))
             ELSE ExtractLoop(its, i + 1, elements)

extract_autosar_elements(root) == ExtractLoop(Iter(root, <<>>), 1, <<>>)

NaN == [t |-> "NaN"]
IsNull(v) == v.t \in {"None", "NaN"}
\* elementwise != of two object columns: a null on either side compares unequal
NotEqual(v1, v2) == IsNull(v1) \/ IsNull(v2) \/ v1 # v2

KeyOf(e) == <<e.Tag, e.Parent_Tag, e.Parent_Name>>

MergedRow(key, v1, v2) ==
    [Tag |-> key[1], Parent_Tag |-> key[2], Parent_Name |-> key[3],
     Value_File1 |-> v1, Value_File2 |-> v2, Difference |-> NotEqual(v1, v2)]

Matches(e, es) == SelectSeq(es, LAMBDA x : KeyOf(x) = KeyOf(e))

\* every row of the left frame, once per row of the right frame with its key
LeftRows(elements1, elements2) ==
    Concat([i \in 1..Len(elements1) |->
        LET e == elements1[i]
            ms == Matches(e, elements2)
        IN  IF ms = <<>> THEN <<MergedRow(KeyOf(e), e.Value, NaN)>>
            ELSE [j \in 1..Len(ms) |-> MergedRow(KeyOf(e), e.Value, ms[j].Value)]])

\* the rows of the right frame whose key the left frame lacks
RightOnlyRows(elements1, elements2) ==
    Concat([i \in 1..Len(elements2) |->
        LET e == elements2[i]
        IN  IF Matches(e, elements1) = <<>>
            THEN <<MergedRow(KeyOf(e), NaN, e.Value)>>
            ELSE <<>>])

\* the merge with how="left"
OuterMerge_Left(elements1, elements2) == LeftRows(elements1, elements2)

\* df1.merge(df2, on=[Tag, Parent Tag, Parent Name], how="outer"); the rows
\* are listed left rows first, pandas orders them by key
OuterMerge(elements1, elements2) ==
    LeftRows(elements1, elements2) \o RightOnlyRows(elements1, elements2)

compare_arxml_5(elements1, elements2) ==
    IF elements1 = <<>> \/ elements2 = <<>> THEN Raised("KeyError")
    ELSE LET merged_df == OuterMerge(elements1, elements2)
         IN  Returned(SelectSeq(merged_df, LAMBDA r : r.Difference))

\* lines 183-210 of src/5.py: what one run of the script leaves in the right
\* section.  file1, file2 are <<>> (nothing uploaded) or <<file>>.
Blank5 ==
    [parse_errors |-> 0, elements1 |-> <<>>, elements2 |-> <<>>,
     heading |-> "", body |-> "", differences |-> <<>>, raised |-> ""]

CompareSection(page, e1, file2) ==
    LET root2 == parse_arxml_5(file2) IN
    IF root2 = <<>> THEN [page EXCEPT !.parse_errors = 1]
    ELSE IF ~Truthy(root2) THEN page
    ELSE LET e2 == extract_autosar_elements(root2[1]) IN
         IF e2.status = "raised" THEN [page EXCEPT !.raised = e2.exc]
         ELSE LET shown == [page EXCEPT !.elements2 = <<e2.value>>,
                                        !.heading = "Comparison Results"]
                  differences == compare_arxml_5(e1, e2.value)
              IN  IF differences.status = "raised"
                  THEN [shown EXCEPT !.raised = differences.exc]
                  ELSE IF differences.value # <<>>
                  THEN [shown EXCEPT !.body = "dataframe",
                                     !.differences = differences.value]
                  ELSE [shown EXCEPT !.body = "No differences found."]

RunAgent(file1, file2, menu, asked) ==
    IF file1 = <<>> THEN Blank5
    ELSE LET root1 == parse_arxml_5(file1[1]) IN
         IF root1 = <<>> THEN [Blank5 EXCEPT !.parse_errors = 1]
         ELSE IF ~Truthy(root1) THEN Blank5
         ELSE LET e1 == extract_autosar_elements(root1[1]) IN
              IF e1.status = "raised" THEN [Blank5 EXCEPT !.raised = e1.exc]
              ELSE LET page == [Blank5 EXCEPT !.elements1 = <<e1.value>>] IN
                   IF menu = "Comparison" /\ file2 # <<>>
                   THEN CompareSection(page, e1.value, file2[1])
                   ELSE IF menu = "Validation"
                   THEN [page EXCEPT !.heading = "Validation Results",
                                     !.body = "No validation errors found."]
                   ELSE IF menu = "Ask a Question"
                   THEN [page EXCEPT !.heading = "Ask a Question",
                                     !.body = IF asked
                                              THEN "Answer: AI-generated response placeholder"
                                              ELSE ""]
                   ELSE page

\* ---------------------------------------------------------------- enumerated uploads
RECURSIVE Serialize(_)
Serialize(node) ==
    CASE node.kind = "text" -> <<Chr(node.ch)>>
      [] node.kind = "comment" -> <<Cmt>>
      [] node.kind = "elem" ->
            <<Open(node.tag, node.attr)>>
            \o Concat([i \in 1..Len(node.children) |-> Serialize(node.children[i])])
            \o <<Close(node.tag)>>

Leaf(tag, text) == ElemNode(tag, <<>>, [i \in 1..Len(text) |-> TextNode(text[i])])

ChildSeqs(C) == UNION {[1..k -> C] : k \in 0..MaxChildren}

ReviewRoots ==
    {"AUTOSAR", "error", "ECU", "Software-Component", "Diagnostic", "Communication"}
ReviewChildren ==
    {Leaf("ECU", <<>>), Leaf("SHORT-NAME", <<"a">>), Leaf("SHORT-NAME", <<"b">>)}

AgentRoots ==
    {<<"AUTOSAR", <<>>>>, <<"AUTOSAR", << <<"a">> >> >>, <<"SHORT-NAME", <<>>>>}
AgentChildren ==
    {Leaf("SHORT-NAME", <<>>), Leaf("SHORT-NAME", <<"a">>),
     Leaf("SHORT-NAME", <<"b">>), CommentNode}

BlankFiles == UNION {[1..k -> {Chr(c) : c \in Whitespace}] : k \in 0..MaxBlank}

MalformedFiles ==
    { <<Open("AUTOSAR", <<>>)>>,
      <<Open("AUTOSAR", <<>>), Close("ECU")>>,
      <<Close("ECU")>>,
      <<Chr("a")>>,
      <<Open("ECU", <<>>), Close("ECU"), Open("ECU", <<>>), Close("ECU")>>,
      <<Cmt>>,
      <<BadByte>>,
      <<Chr(" "), BadByte>> }

Ecu(name) == ElemNode("ECU", <<>>, <<Leaf("SHORT-NAME", name)>>)

SampleFiles ==
    { \* pretty-printed, with a leading comment
      <<Chr("\n"), Cmt, Open("error", <<>>), Chr(" "), Close("error"), Chr("\n")>>,
      <<Open("ECU", <<>>), Chr("\n"), Open("SHORT-NAME", <<>>), Chr(" "), Chr("a"),
        Close("SHORT-NAME"), Chr("\n"), Close("ECU"), Chr("\n")>>,
      \* two ECUs, each with its own SHORT-NAME
      Serialize(ElemNode("AUTOSAR", <<>>, <<Ecu(<<"a">>), Ecu(<<"b">>)>>)),
      \* a tag that merely contains "SHORT-NAME"
      Serialize(ElemNode("AUTOSAR", <<>>, <<Leaf("SHORT-NAME-PATTERN", <<"a">>)>>)),
      \* all four required tags below the root
      Serialize(ElemNode("AUTOSAR", <<>>,
                <<Leaf("ECU", <<>>), Leaf("Software-Component", <<>>),
                  Leaf("Diagnostic", <<>>), Leaf("Communication", <<>>)>>)) }

ReviewFiles ==
    {Serialize(ElemNode(r, <<>>, cs)) : r \in ReviewRoots, cs \in ChildSeqs(ReviewChildren)}
    \cup BlankFiles \cup MalformedFiles \cup SampleFiles

AgentFiles ==
    {Serialize(ElemNode(r[1], r[2], cs)) : r \in AgentRoots, cs \in ChildSeqs(AgentChildren)}
    \cup MalformedFiles \cup SampleFiles

\* ---------------------------------------------------------------- state
VARIABLES
    app,                 \* which script the session runs: "1.py" or "5.py"
    uploaded_files,      \* 1.py: the files in the uploader
    parsed,              \* 1.py: path and result of parse_arxml for each file
    consistency_result,  \* 1.py: check_consistency(uploaded_files[0])
    comparison_result,   \* 1.py: compare_arxml(...), <<>> when the tab is absent
    uploaded_file_1,     \* 5.py: first uploader, <<>> or <<file>>
    uploaded_file_2,     \* 5.py: second uploader, <<>> or <<file>>
    menu_option,         \* 5.py: the radio
    page                 \* 5.py: what the run rendered (RunAgent)

vars == <<app, uploaded_files, parsed, consistency_result, comparison_result,
          uploaded_file_1, uploaded_file_2, menu_option, page>>
vars1 == <<uploaded_files, parsed, consistency_result, comparison_result>>
vars5 == <<uploaded_file_1, uploaded_file_2, menu_option, page>>

Parsed(file) == [path |-> ParsePath(file), data |-> parse_arxml_1(file)]

Init ==
    /\ app \in {"1.py", "5.py"}
    /\ uploaded_files = <<>>
    /\ parsed = <<>>
    /\ consistency_result = <<>>
    /\ comparison_result = <<>>
    /\ uploaded_file_1 = <<>>
    /\ uploaded_file_2 = <<>>
    /\ menu_option = "Validation"
    /\ page = Blank5

\* A session is explored as the user filling the widgets one after the other
\* (every change of a widget reruns the whole script, which reads nothing but
\* the widgets): in 1.py a first file, then a second; in 5.py the radio and the
\* first file, then, under "Comparison", the second file.

\* 1.py, one file in the uploader: lines 162-180.  The first tab hands
\* check_consistency(file) to the language model; its text is not modelled.
ReviewOne(f) ==
    /\ app = "1.py"
    /\ uploaded_files = <<>>
    /\ uploaded_files' = <<f>>
    /\ parsed' = <<Parsed(f)>>
    /\ consistency_result' = check_consistency(f)
    /\ comparison_result' = <<>>
    /\ UNCHANGED <<app, vars5>>

\* 1.py, a second file added to the uploader: lines 162-166, 182-204 (a third
\* file only shows "Please upload 1 or 2 ARXML files." and is not explored)
ReviewTwo(g) ==
    /\ app = "1.py"
    /\ Len(uploaded_files) = 1
    /\ uploaded_files' = Append(uploaded_files, g)
    /\ parsed' = <<Parsed(uploaded_files[1]), Parsed(g)>>
    /\ consistency_result' = check_consistency(uploaded_files[1])
    /\ comparison_result' = compare_arxml_1(uploaded_files[1], g)
    /\ UNCHANGED <<app, vars5>>

\* 5.py, one run of the script with the widgets as given: lines 183-210
Agent(file1, file2, menu, asked) ==
    /\ app = "5.py"
    /\ uploaded_file_1' = file1
    /\ uploaded_file_2' = file2
    /\ menu_option' = menu
    /\ page' = RunAgent(file1, file2, menu, asked)
    /\ UNCHANGED <<app, vars1>>

\* the radio is moved (before the second upload)
SelectMenu(menu) ==
    /\ uploaded_file_2 = <<>>
    /\ menu # menu_option
    /\ Agent(uploaded_file_1, uploaded_file_2, menu, FALSE)

UploadFile1(f) ==
    /\ uploaded_file_1 = <<>>
    /\ Agent(<<f>>, uploaded_file_2, menu_option, FALSE)

UploadFile2(g) ==
    /\ uploaded_file_1 # <<>>
    /\ uploaded_file_2 = <<>>
    /\ menu_option = "Comparison"
    /\ Agent(uploaded_file_1, <<g>>, menu_option, FALSE)

\* a question is typed into the text input
AskQuestion ==
    /\ menu_option = "Ask a Question"
    /\ page.heading = "Ask a Question"
    /\ page.body = ""
    /\ Agent(uploaded_file_1, uploaded_file_2, menu_option, TRUE)

Next ==
    \/ \E f \in ReviewFiles : ReviewOne(f)
    \/ \E g \in ReviewFiles : ReviewTwo(g)
    \/ \E menu \in {"Validation", "Comparison", "Ask a Question"} : SelectMenu(menu)
    \/ \E f \in AgentFiles : UploadFile1(f)
    \/ \E g \in AgentFiles : UploadFile2(g)
    \/ AskQuestion

Spec == Init /\ [][Next]_vars

\* ================================================================ properties
IsBlankFile(f) == \A j \in 1..Len(f) : f[j].k = "char" /\ f[j].ch \in Whitespace

IsDifferenceEntry(e) == "kind" \in DOMAIN e /\ e.kind # "no_differences"
IsErrorFinding(e) == "issue" \in DOMAIN e /\ e.category = "Critical"

Occurrences(x, seq) == Cardinality({i \in 1..Len(seq) : seq[i] = x})

\* back holds the entries of fwd, each mirrored by M, as often as fwd does
Mirrored(fwd, back, M(_)) ==
    /\ Len(fwd) = Len(back)
    /\ \A i \in 1..Len(fwd) : Occurrences(fwd[i], fwd) = Occurrences(M(fwd[i]), back)

Mirror1(e) ==
    IF "kind" \notin DOMAIN e THEN e
    ELSE CASE e.kind = "missing_in_second" -> MissingInFirst(e.key)
           [] e.kind = "missing_in_first" -> MissingInSecond(e.key)
           [] e.kind = "difference" -> DifferenceIn(e.key, e.file2, e.file1)
           [] OTHER -> e

Mirror5(r) ==
    [r EXCEPT !.Value_File1 = r.Value_File2, !.Value_File2 = r.Value_File1]

\* C2 (Symmetry): comparing (A, B) and (B, A) reports the same keys; an entry
\* "missing in the second file" one way is "missing in the first file" the
\* other way, and a value difference appears both ways with the two values
\* swapped.  1.py: the entries of compare_arxml; 5.py: the rows of the merged
\* frame the run shows (and the run fails in the comparison one way exactly
\* when it does the other way).
Symmetry ==
    /\ Len(uploaded_files) = 2 =>
          Mirrored(comparison_result,
                   compare_arxml_1(uploaded_files[2], uploaded_files[1]), Mirror1)
    /\ (uploaded_file_1 # <<>> /\ uploaded_file_2 # <<>>) =>
          LET back == RunAgent(uploaded_file_2, uploaded_file_1, menu_option, FALSE)
          IN  /\ Mirrored(page.differences, back.differences, Mirror5)
              /\ page.body = back.body
              /\ (page.raised = "KeyError") <=> (back.raised = "KeyError")

\* a comparison in 5.py that shows a key of the first file only and a key of
\* the second file only
Symmetry_Witness ==
    /\ uploaded_file_1 # <<>> /\ uploaded_file_2 # <<>>
    /\ \E i, j \in 1..Len(page.differences) :
          /\ page.differences[i].Value_File2 = NaN
          /\ page.differences[j].Value_File1 = NaN

\* C6 (Empty input): parse_arxml of src/1.py returns the "empty" error for an
\* empty or whitespace-only file, on the path that returns before the XML
\* parser is called, and that outcome differs from every parser error.
EmptyInput ==
    \A i \in 1..Len(uploaded_files) :
        IsBlankFile(uploaded_files[i]) =>
            /\ parsed[i].path = "empty"
            /\ parsed[i].data = ("error" :> EmptyMessage)
            /\ \A e \in {"UnicodeDecodeError", "ExpatError"} :
                  parsed[i].data # ("error" :> ParseMessage(e))

\* an empty first file and a whitespace-only second file have been parsed
EmptyInput_Witness ==
    /\ Len(uploaded_files) = 2
    /\ uploaded_files[1] = <<>>
    /\ Len(uploaded_files[2]) > 0 /\ IsBlankFile(uploaded_files[2])
    /\ parsed[2].path = "empty"

\* C7 (Failed parse hides everything else): when parse_arxml fails on the
\* file, check_consistency returns one Critical error entry and no
\* missing-tag finding; when it fails on either file, compare_arxml of
\* src/1.py returns one Critical error entry and no difference entry.
FailedParseHidesAll ==
    /\ (Len(uploaded_files) >= 1 /\ parsed[1].path # "parsed") =>
          /\ Len(consistency_result) = 1
          /\ consistency_result[1].category = "Critical"
          /\ consistency_result[1].issue.text = "{error}"
    /\ (Len(uploaded_files) = 2
        /\ (parsed[1].path # "parsed" \/ parsed[2].path # "parsed")) =>
          /\ Len(comparison_result) = 1
          /\ IsErrorFinding(comparison_result[1])
          /\ ~IsDifferenceEntry(comparison_result[1])

\* the first file parses, the second does not, and one error entry is shown
FailedParseHidesAll_Witness ==
    /\ Len(uploaded_files) = 2
    /\ parsed[1].path = "parsed"
    /\ parsed[2].path = "parse_raised"
    /\ comparison_result = <<InvalidFiles>>

\* ---------------------------------------------------------------- refuted on the code
BothExtracted == page.elements1 # <<>> /\ page.elements2 # <<>>

\* C1 (Identity): a document compared with itself yields no difference:
\* compare_arxml of src/1.py reports no difference entry, and compare_arxml of
\* src/5.py returns no row for the element list of the document, also when
\* several elements share a key.  (Stated for 5.py over the non-empty lists
\* whose elements all have text, where nothing but the merge decides it.)
Identity ==
    /\ (Len(uploaded_files) = 2 /\ uploaded_files[1] = uploaded_files[2]
        /\ parsed[1].path = "parsed") =>
          \A i \in 1..Len(comparison_result) : ~IsDifferenceEntry(comparison_result[i])
    /\ (uploaded_file_1 # <<>> /\ uploaded_file_1 = uploaded_file_2
        /\ BothExtracted /\ page.elements1[1] # <<>>
        /\ \A i \in 1..Len(page.elements1[1]) : page.elements1[1][i].Value # None) =>
          page.raised = "" /\ page.differences = <<>>

KeysOf(elements) == {KeyOf(elements[i]) : i \in 1..Len(elements)}
ValuesAt(key, elements) ==
    LET es == SelectSeq(elements, LAMBDA e : KeyOf(e) = key)
    IN  [i \in 1..Len(es) |-> es[i].Value]
RowsAt(key, rows) ==
    SelectSeq(rows, LAMBDA r : <<r.Tag, r.Parent_Tag, r.Parent_Name>> = key)

\* C3 (Difference classification): one entry per key whose status differs and
\* nothing else: only in the first document, one Removed entry; only in the
\* second, one Added entry; in both with unequal values, one Changed entry
\* with both values; in both with equal values, no entry.  (Stated for 1.py
\* over the documents whose root is not named "error", see C10.)
Classification ==
    /\ (Len(uploaded_files) = 2 /\ parsed[1].path = "parsed"
        /\ parsed[2].path = "parsed"
        /\ "error" \notin DOMAIN parsed[1].data \cup DOMAIN parsed[2].data) =>
          LET data1 == parsed[1].data
              data2 == parsed[2].data
              entries == SelectSeq(comparison_result, IsDifferenceEntry)
          IN  /\ Len(entries) = Len(comparison_result) \/ Len(entries) = 0
              /\ \A key \in DOMAIN data1 \cup DOMAIN data2 :
                    LET at == SelectSeq(entries, LAMBDA e : e.key = key) IN
                    IF key \notin DOMAIN data2 THEN at = <<MissingInSecond(key)>>
                    ELSE IF key \notin DOMAIN data1 THEN at = <<MissingInFirst(key)>>
                    ELSE IF data1[key] # data2[key]
                    THEN at = <<DifferenceIn(key, data1[key], data2[key])>>
                    ELSE at = <<>>
    /\ (uploaded_file_2 # <<>> /\ BothExtracted /\ page.raised = "") =>
          LET e1 == page.elements1[1]
              e2 == page.elements2[1]
          IN  \A key \in KeysOf(e1) \cup KeysOf(e2) :
                 LET at == RowsAt(key, page.differences) IN
                 IF key \notin KeysOf(e2)
                 THEN Len(at) = 1 /\ at[1].Value_File2 = NaN
                 ELSE IF key \notin KeysOf(e1)
                 THEN Len(at) = 1 /\ at[1].Value_File1 = NaN
                 ELSE IF ValuesAt(key, e1) # ValuesAt(key, e2)
                 THEN Len(at) = 1
                 ELSE at = <<>>

\* the tags of the elements of a file
DocTags(file) == {file[i].tag : i \in {j \in 1..Len(file) : file[j].k = "open"}}
MissingFindings(result) ==
    SelectSeq(result, LAMBDA e :
        e.issue.text = "Missing required configuration: {field}")
MissingFields(result) ==
    LET ms == MissingFindings(result) IN [i \in 1..Len(ms) |-> ms[i].issue.arg.s[1]]

\* C4 (Coverage): for a parsed document check_consistency returns one Critical
\* finding for each required tag absent from the document, in list order, and
\* none when all four are present.  (Stated over the documents without an
\* element named "error", see C10.)
Coverage ==
    (Len(uploaded_files) >= 1 /\ parsed[1].path = "parsed"
     /\ "error" \notin DocTags(uploaded_files[1])) =>
        /\ MissingFields(consistency_result) =
              SelectSeq(required_fields,
                        LAMBDA field : field \notin DocTags(uploaded_files[1]))
        /\ \A i \in 1..Len(consistency_result) :
              consistency_result[i].category = "Critical" =>
                 consistency_result[i] \in
                    {MissingFindings(consistency_result)[j] :
                        j \in 1..Len(MissingFindings(consistency_result))}

\* C5 (Nested presence): a required tag that occurs anywhere in a parsed
\* document, at the root or below it, gets no "Missing required
\* configuration" finding.
NestedPresence ==
    (Len(uploaded_files) >= 1 /\ parsed[1].path = "parsed") =>
        \A i \in 1..Len(required_fields) :
            required_fields[i] \in DocTags(uploaded_files[1]) =>
                \A j \in 1..Len(MissingFields(consistency_result)) :
                    MissingFields(consistency_result)[j] # required_fields[i]

\* C8 (The comparison never fails on well-formed input): with two parsed
\* documents, extracting the elements and comparing them raises nothing.
NeverFails ==
    (uploaded_file_1 # <<>> /\ uploaded_file_2 # <<>>
     /\ XmlParse(uploaded_file_1[1]).ok /\ XmlParse(uploaded_file_2[1]).ok) =>
        page.raised = ""

\* C9 (Path uniqueness): no two entries extract_autosar_elements returns for
\* one document share the (Tag, Parent Tag, Parent Name) triple.
PathUniqueness ==
    page.elements1 # <<>> =>
        LET e1 == page.elements1[1] IN
        \A i, j \in 1..Len(e1) : KeyOf(e1[i]) = KeyOf(e1[j]) => i = j

\* C10 (A parse failure is distinguishable): check_consistency and
\* compare_arxml of src/1.py report the parse-error outcome only if
\* parse_arxml failed on a file.
Distinguishable ==
    /\ (Len(uploaded_files) >= 1 /\ consistency_result[1].issue.text = "{error}") =>
          parsed[1].path # "parsed"
    /\ (Len(uploaded_files) = 2 /\ comparison_result = <<InvalidFiles>>) =>
          (parsed[1].path # "parsed" \/ parsed[2].path # "parsed")

====
